---- MODULE Spec2Model ----
(***************************************************************************)
(* train_model (src/multilabel/train.py): the epoch / phase / batch loop   *)
(* of a multi-label classifier, its best-checkpoint bookkeeping, its       *)
(* history lists and its optional forward-pass profile.                    *)
(*                                                                         *)
(* Numbers.  Scores and labels are fixed point with one decimal digit:     *)
(* 0.5 is Half = 5 and 1.0 is Scale = 10.  A loss is fixed point with two  *)
(* digits (Scale * Scale = 100 is the loss 1.0), so that                   *)
(* loss1 + 0.4 * loss2 stays an integer.  A quotient (epoch_loss,          *)
(* epoch_acc, best_loss, best_acc) is an exact fraction [num, den].        *)
(*                                                                         *)
(* Parameters.  model.state_dict() is a version number: every              *)
(* optimizer.step() produces a version never seen before in the run, so    *)
(* two equal versions are equal parameters.                                *)
(***************************************************************************)
EXTENDS Integers, Sequences, FiniteSets, TLC

VARIABLES
    \* ---- arguments of train_model
    dataloaders,      \* phase -> [len: len(loader.dataset), batches: the batches it yields]
    num_epochs, num_classes, is_inception, profiler, threshold,
    out_width,        \* columns of the model's output (and of the labels)
    \* ---- collaborators
    params,           \* model.state_dict()
    sched_steps,      \* number of scheduler.step() calls
    calls,            \* collaborator calls made by the most recent batch, in order
    \* ---- locals of train_model
    pc, epoch, phase, i,
    running_loss, running_corrects, targets_batch, outputs_batch,
    outputs, preds,
    best_model_wts, best_loss, best_acc, prof,
    val_acc_history, val_loss_history, val_outputs_history, val_targets_history,
    train_acc_history, train_loss_history, train_outputs_history, train_targets_history,
    result,           \* what train_model returned; NoResult before it returns
    \* ---- history variables of the verification (not read by any action's guard)
    last_fwd,         \* <<epoch, phase, i>> of the most recent forward pass
    end_params,       \* end_params[e + 1]: params when epoch e's val phase was finalized
    train_end_params  \* params when the current epoch's train phase was finalized

args == <<dataloaders, num_epochs, num_classes, is_inception, profiler, threshold, out_width>>

histories == <<val_acc_history, val_loss_history, val_outputs_history, val_targets_history,
               train_acc_history, train_loss_history, train_outputs_history,
               train_targets_history>>

best == <<best_model_wts, best_loss, best_acc>>

running == <<running_loss, running_corrects, targets_batch, outputs_batch>>

ghosts == <<last_fwd, end_params, train_end_params>>

vars == <<args, params, sched_steps, calls, pc, epoch, phase, i, running, outputs, preds,
          best, prof, histories, result, ghosts>>

(***************************************************************************)
(* Bounds and program constants                                            *)
(***************************************************************************)
MaxEpochs == 2

\* preds[preds >= 0.5] = 1; preds[preds < 0.5] = 0
Half == 5

Scale == 2 * Half

\* loss = loss1 + 0.4 * loss2
AuxWeight == 4

\* best_loss = 10000.0
BestLossInit == 10000

None == <<>>

NoResult == <<>>

Phases == <<"train", "val">>

(***************************************************************************)
(* Exact fractions                                                         *)
(***************************************************************************)
Frac(n, d) == [num |-> n, den |-> d]

FracLess(a, b) == a.num * b.den < b.num * a.den

FracEq(a, b) == a.num * b.den = b.num * a.den

FracMin(a, b) == IF FracLess(b, a) THEN b ELSE a

(***************************************************************************)
(* Arrays.  A tensor of shape [rows, out_width] is the flat sequence of    *)
(* its entries, row by row.                                                *)
(***************************************************************************)
RECURSIVE Flatten(_)
Flatten(ss) == IF ss = <<>> THEN <<>> ELSE Head(ss) \o Flatten(Tail(ss))

RECURSIVE SumSeq(_)
SumSeq(s) == IF s = <<>> THEN 0 ELSE Head(s) + SumSeq(Tail(s))

Abs(x) == IF x < 0 THEN -x ELSE x

\* torch.sum(a == b)
CountEqual(a, b) == Cardinality({k \in DOMAIN a : a[k] = b[k]})

(***************************************************************************)
(* The data: sample n of a dataset has the multi-hot label row             *)
(* LabelRow(n, w); a loader is its dataset's length and the batches (of    *)
(* sample numbers) one pass over it yields.                                *)
(***************************************************************************)
LabelRow(n, w) == [c \in 1..w |-> Scale * (((n + 1) * c) % 2)]

BatchLabels(batch, w) == Flatten([r \in DOMAIN batch |-> LabelRow(batch[r], w)])

Loader(n, bs) == [len |-> n, batches |-> bs]

\* one sample, one batch
LoaderOne == Loader(1, << <<1>> >>)

\* two samples, two batches of one
LoaderTwo == Loader(2, << <<1>>, <<2>> >>)

\* two samples, one batch of two
LoaderPair == Loader(2, << <<1, 2>> >>)

\* an empty dataset
LoaderEmpty == Loader(0, <<>>)

\* two samples, no batch (drop_last with a batch size above the dataset's length)
LoaderDropLast == Loader(2, <<>>)

\* one sample drawn twice (a sampler with replacement, num_samples > len(dataset))
LoaderOversample == Loader(1, << <<1>>, <<1>> >>)

\* One call's arguments: the two loaders, num_classes, the width of the model's
\* output, is_inception
Shape(tr, va, nc, w, inc) == [train |-> tr, val |-> va, nc |-> nc, w |-> w, inc |-> inc]

Shapes ==
    { Shape(LoaderOne, LoaderOne, 1, 1, FALSE),
      Shape(LoaderOne, LoaderOne, 1, 1, TRUE),
      Shape(LoaderTwo, LoaderOne, 1, 1, FALSE),
      Shape(LoaderOne, LoaderTwo, 1, 1, FALSE),
      Shape(LoaderPair, LoaderPair, 2, 2, FALSE),
      Shape(LoaderEmpty, LoaderOne, 1, 1, FALSE),
      Shape(LoaderOne, LoaderEmpty, 1, 1, FALSE),
      Shape(LoaderDropLast, LoaderOne, 1, 1, FALSE),
      Shape(LoaderOne, LoaderDropLast, 1, 1, FALSE),
      Shape(LoaderOversample, LoaderOne, 1, 1, FALSE),
      Shape(LoaderOne, LoaderOversample, 1, 1, FALSE),
      Shape(LoaderOne, LoaderOne, 1, 2, FALSE) }

(***************************************************************************)
(* The collaborators.  model(inputs) is opaque: it answers with any of     *)
(* the score arrays of ModelOutputs.  criterion is a deterministic         *)
(* function of scores and labels (here the summed absolute error).         *)
(***************************************************************************)
RawVals == {Half - 1, Half, BestLossInit * Scale}

ModelOutputs(n) == {[k \in 1..n |-> v] : v \in RawVals}

Criterion(out, labels) == SumSeq([k \in DOMAIN out |-> Abs(out[k] - labels[k])])

(***************************************************************************)
(* Lines 100-103: preds = clone(outputs); preds[preds >= 0.5] = 1;         *)
(* preds[preds < 0.5] = 0.  The threshold argument is not read.            *)
(***************************************************************************)
MaskHigh(a, thr) == [k \in DOMAIN a |-> IF a[k] >= Half THEN Scale ELSE a[k]]

MaskLow(a, thr) == [k \in DOMAIN a |-> IF a[k] < Half THEN 0 ELSE a[k]]

Predict(out, thr) == MaskLow(MaskHigh(out, thr), thr)

(***************************************************************************)
(* Lines 22-38: the state after the locals are initialised                 *)
(***************************************************************************)
\* running_corrects = 0 is a Python int; adding a tensor to it makes it a tensor
IntZero == [tensor |-> FALSE, val |-> 0]

InitLocals ==
    /\ params = 0
    /\ sched_steps = 0
    /\ calls = <<>>
    /\ epoch = 0
    /\ phase = "train"
    /\ i = 0
    /\ running_loss = 0
    /\ running_corrects = IntZero
    /\ targets_batch = <<>>
    /\ outputs_batch = <<>>
    /\ best_model_wts = params
    /\ best_loss = Frac(BestLossInit * Scale * Scale, 1)
    /\ best_acc = Frac(0, 1)
    /\ prof = None
    /\ val_acc_history = <<>>
    /\ val_loss_history = <<>>
    /\ val_outputs_history = <<>>
    /\ val_targets_history = <<>>
    /\ train_acc_history = <<>>
    /\ train_loss_history = <<>>
    /\ train_outputs_history = <<>>
    /\ train_targets_history = <<>>
    /\ result = NoResult
    /\ last_fwd = None
    /\ end_params = <<>>
    /\ train_end_params = params

Init ==
    /\ \E sh \in Shapes :
          /\ dataloaders = [train |-> sh.train, val |-> sh.val]
          /\ num_classes = sh.nc
          /\ out_width = sh.w
          /\ is_inception = sh.inc
    /\ num_epochs \in 0..MaxEpochs
    /\ profiler \in BOOLEAN
    /\ threshold = Half
    /\ pc = "epoch_loop"
    /\ outputs = <<>>
    /\ preds = <<>>
    /\ InitLocals

(***************************************************************************)
(* Lines 40-42: for epoch in range(num_epochs)                             *)
(***************************************************************************)
EpochStart ==
    /\ pc = "epoch_loop"
    /\ epoch < num_epochs
    /\ phase' = Phases[1]
    /\ pc' = "phase_start"
    /\ UNCHANGED <<args, params, sched_steps, calls, epoch, i, running, outputs, preds,
                   best, prof, histories, result, ghosts>>

(***************************************************************************)
(* Lines 45-57: model.train() / model.eval() and the phase's accumulators  *)
(***************************************************************************)
PhaseStart ==
    /\ pc = "phase_start"
    /\ running_loss' = 0
    /\ running_corrects' = IntZero
    /\ i' = 0
    /\ targets_batch' = <<>>
    /\ outputs_batch' = <<>>
    /\ pc' = "batches"
    /\ UNCHANGED <<args, params, sched_steps, calls, epoch, phase, outputs, preds,
                   best, prof, histories, result, ghosts>>

(***************************************************************************)
(* Lines 60-123: one batch                                                 *)
(***************************************************************************)
\* line 78: the branch with the auxiliary output
UsesAux(inc, ph) == inc /\ ph = "train"

\* mutant of Profile: the first profile is kept, later passes do not replace it
ProfileFirstOnly(on, old, id) == IF on /\ old = None THEN id ELSE old

\* lines 80-98: both branches wrap the forward pass when profiler is set
Profile(on, old, id) == IF on THEN id ELSE old

\* mutant of Trains: backward and step in both phases
TrainsAlways(ph) == TRUE

\* line 106: backward + optimize only if in training phase
Trains(ph) == ph = "train"

\* lines 107-108: loss.backward(); optimizer.step()
TrainCalls(ph) == IF Trains(ph) THEN <<"backward", "step">> ELSE <<>>

\* optimizer.step(): a parameter version not seen before
Step(p, ph) == IF Trains(ph) THEN p + 1 ELSE p

Batch ==
    /\ pc = "batches"
    /\ i < Len(dataloaders[phase].batches)
    /\ LET batch == dataloaders[phase].batches[i + 1]
           labels == BatchLabels(batch, out_width)
           n == Len(batch) * out_width
           id == <<epoch, phase, i + 1>>
       IN  \E out \in ModelOutputs(n) :
           \E aux \in IF UsesAux(is_inception, phase) THEN ModelOutputs(n) ELSE {out} :
              LET loss == IF UsesAux(is_inception, phase)
                          THEN Scale * Criterion(out, labels)
                               + AuxWeight * Criterion(aux, labels)
                          ELSE Scale * Criterion(out, labels)
                  p == Predict(out, threshold)
                  curr_acc == CountEqual(p, labels)
              IN  /\ i' = i + 1
                  /\ prof' = Profile(profiler, prof, id)
                  /\ last_fwd' = id
                  /\ outputs' = out
                  /\ preds' = p
                  /\ calls' = <<"forward">> \o TrainCalls(phase)
                  /\ params' = Step(params, phase)
                  /\ running_loss' = running_loss + loss * Len(batch)
                  /\ running_corrects' =
                        [tensor |-> TRUE, val |-> running_corrects.val + curr_acc]
                  /\ outputs_batch' = Append(outputs_batch, p)
                  /\ targets_batch' = Append(targets_batch, labels)
    /\ UNCHANGED <<args, sched_steps, pc, epoch, phase, best, histories, result,
                   end_params, train_end_params>>

(***************************************************************************)
(* Lines 125-161: the phase's epoch_loss and epoch_acc, the best           *)
(* checkpoint and the histories                                            *)
(***************************************************************************)
\* mutant of Raises: running_corrects is a tensor from the start
RaisesOnEmptyDataset(loader, rc) == loader.len = 0

\* line 126: float / 0 raises ZeroDivisionError;
\* line 127: running_corrects.double() raises AttributeError on the int 0
Raises(loader, rc) == loader.len = 0 \/ ~rc.tensor

EpochLoss(rl, loader) == Frac(rl, loader.len)

\* mutant of EpochAcc: the division by num_classes is missing
EpochAccPerSample(rc, loader, nc) == Frac(rc.val, loader.len)

EpochAcc(rc, loader, nc) == Frac(rc.val, loader.len * nc)

\* mutant of IsBetter: a tie replaces the checkpoint
IsBetterOrEqual(ph, loss, bl) == ph = "val" /\ ~FracLess(bl, loss)

\* line 137
IsBetter(ph, loss, bl) == ph = "val" /\ FracLess(loss, bl)

\* mutant of HistAppend: the list is overwritten by the new entry
HistOverwrite(h, x) == <<x>>

\* lines 146-150 and 157-161: list.append
HistAppend(h, x) == Append(h, x)

PhaseDone ==
    /\ pc = "batches"
    /\ i = Len(dataloaders[phase].batches)

FinalizeRaises ==
    /\ PhaseDone
    /\ Raises(dataloaders[phase], running_corrects)
    /\ pc' = "failed"
    /\ UNCHANGED <<args, params, sched_steps, calls, epoch, phase, i, running, outputs,
                   preds, best, prof, histories, result, ghosts>>

Finalize ==
    /\ PhaseDone
    /\ ~Raises(dataloaders[phase], running_corrects)
    /\ LET loader == dataloaders[phase]
           epoch_loss == EpochLoss(running_loss, loader)
           epoch_acc == EpochAcc(running_corrects, loader, num_classes)
           outs == Flatten(outputs_batch)
           tgts == Flatten(targets_batch)
       IN  /\ IF IsBetter(phase, epoch_loss, best_loss)
              THEN /\ best_loss' = epoch_loss
                   /\ best_acc' = epoch_acc
                   /\ best_model_wts' = params
              ELSE UNCHANGED best
           /\ outputs_batch' = outs
           /\ targets_batch' = tgts
           /\ IF phase = "val"
              THEN /\ val_outputs_history' = HistAppend(val_outputs_history, outs)
                   /\ val_targets_history' = HistAppend(val_targets_history, tgts)
                   /\ val_acc_history' = HistAppend(val_acc_history, epoch_acc)
                   /\ val_loss_history' = HistAppend(val_loss_history, epoch_loss)
                   /\ UNCHANGED <<train_acc_history, train_loss_history,
                                  train_outputs_history, train_targets_history>>
                   /\ end_params' = Append(end_params, params)
                   /\ UNCHANGED <<train_end_params, phase>>
                   /\ pc' = "scheduler"
              ELSE /\ train_outputs_history' = HistAppend(train_outputs_history, outs)
                   /\ train_targets_history' = HistAppend(train_targets_history, tgts)
                   /\ train_acc_history' = HistAppend(train_acc_history, epoch_acc)
                   /\ train_loss_history' = HistAppend(train_loss_history, epoch_loss)
                   /\ UNCHANGED <<val_acc_history, val_loss_history,
                                  val_outputs_history, val_targets_history>>
                   /\ train_end_params' = params
                   /\ UNCHANGED end_params
                   /\ phase' = Phases[2]
                   /\ pc' = "phase_start"
    /\ UNCHANGED <<args, params, sched_steps, calls, epoch, i, running_loss,
                   running_corrects, outputs, preds, prof, result, last_fwd>>

(***************************************************************************)
(* Lines 163-164: scheduler.step(), then the next epoch                    *)
(***************************************************************************)
\* mutant of SchedAdvance: the scheduler is not stepped
SchedSkipped(n) == n

\* line 163: scheduler.step()
SchedAdvance(n) == n + 1

SchedulerStep ==
    /\ pc = "scheduler"
    /\ sched_steps' = SchedAdvance(sched_steps)
    /\ epoch' = epoch + 1
    /\ pc' = "epoch_loop"
    /\ UNCHANGED <<args, params, calls, phase, i, running, outputs, preds, best, prof,
                   histories, result, ghosts>>

(***************************************************************************)
(* Lines 166-192: model.load_state_dict(best_model_wts) and the return     *)
(***************************************************************************)
\* mutant of Restore: the best checkpoint is not loaded
RestoreSkipped(p, wts) == p

\* line 176
Restore(p, wts) == wts

Return ==
    /\ pc = "epoch_loop"
    /\ epoch = num_epochs
    /\ params' = Restore(params, best_model_wts)
    /\ result' = [model |-> params',
                  prof |-> prof,
                  val |-> [acc |-> val_acc_history, loss |-> val_loss_history,
                           targets |-> val_targets_history,
                           outputs |-> val_outputs_history],
                  train |-> [acc |-> train_acc_history, loss |-> train_loss_history,
                             targets |-> train_targets_history,
                             outputs |-> train_outputs_history]]
    /\ pc' = "returned"
    /\ UNCHANGED <<args, sched_steps, calls, epoch, phase, i, running, outputs, preds,
                   best, prof, histories, ghosts>>

Next ==
    \/ EpochStart
    \/ PhaseStart
    \/ Batch
    \/ FinalizeRaises
    \/ Finalize
    \/ SchedulerStep
    \/ Return

Spec == Init /\ [][Next]_vars

(***************************************************************************)
(* The prediction step on its own: lines 100-103 applied to any score      *)
(* array, for any threshold argument of the call.                          *)
(***************************************************************************)
ThresholdVals == {Half - 2, Half, Half + 2}

PredScores == {-1, 0, Half - 1, Half, Half + 1, Scale, Scale + Half}

PredInputs == UNION {[1..n -> PredScores] : n \in 1..2}

InitPred ==
    /\ dataloaders = [train |-> LoaderOne, val |-> LoaderOne]
    /\ num_classes = 1
    /\ out_width = 1
    /\ is_inception = FALSE
    /\ num_epochs = 1
    /\ profiler = FALSE
    /\ threshold \in ThresholdVals
    /\ pc = "predict"
    /\ outputs \in PredInputs
    /\ preds = <<>>
    /\ InitLocals

ApplyPredict ==
    /\ pc = "predict"
    /\ preds' = Predict(outputs, threshold)
    /\ pc' = "predicted"
    /\ UNCHANGED <<args, params, sched_steps, calls, epoch, phase, i, running, outputs,
                   best, prof, histories, result, ghosts>>

NextPred == ApplyPredict

SpecPred == InitPred /\ [][NextPred]_vars

(***************************************************************************)
(* Claims                                                                  *)
(***************************************************************************)
Sentinel == Frac(BestLossInit * Scale * Scale, 1)

\* the first position holding the minimum of a non-empty list of fractions
FirstMin(h) ==
    CHOOSE k \in 1..Len(h) :
        /\ \A j \in 1..Len(h) : ~FracLess(h[j], h[k])
        /\ \A j \in 1..(k - 1) : FracLess(h[k], h[j])

SomeBelowSentinel(h) == \E k \in 1..Len(h) : FracLess(h[k], Sentinel)

IsPrefix(a, b) == Len(a) <= Len(b) /\ SubSeq(b, 1, Len(a)) = a

ValFinalizeStep == pc = "batches" /\ phase = "val" /\ pc' = "scheduler"

TrainFinalizeStep == pc = "batches" /\ phase = "train" /\ pc' = "phase_start"

\* C1: when train_model returns after num_epochs >= 1 epochs, the returned model's
\* parameters are those the model held at the end of the epoch with the minimum
\* validation loss of the run (the first such epoch when several tie), whatever
\* the validation losses were.
C1_ReturnsBestEpoch ==
    (pc = "returned" /\ num_epochs >= 1)
        => result.model = end_params[FirstMin(val_loss_history)]

\* C1, in the runs where some validation loss is strictly below 10000.0
C1_ReturnsBestEpochBelowSentinel ==
    (pc = "returned" /\ num_epochs >= 1 /\ SomeBelowSentinel(val_loss_history))
        => result.model = end_params[FirstMin(val_loss_history)]

C2_BestStep ==
    IF ValFinalizeStep
    THEN LET loss == val_loss_history'[Len(val_loss_history')]
         IN  /\ FracEq(best_loss', FracMin(best_loss, loss))
             /\ FracLess(loss, best_loss)
                   => /\ best_loss' = loss
                      /\ best_acc' = val_acc_history'[Len(val_acc_history')]
                      /\ best_model_wts' = params
             /\ ~FracLess(loss, best_loss) => UNCHANGED best
    ELSE UNCHANGED best

\* C2: a step that finalizes a validation phase leaves best_loss at the minimum of
\* its old value and that epoch's validation loss; it replaces best_loss, best_acc
\* and best_model_wts (by the loss, the accuracy and the parameters of that moment)
\* exactly when the loss is strictly below the old best_loss, and leaves all three
\* unchanged otherwise; no other step changes any of them.
C2_BestUpdate == [][C2_BestStep]_vars

\* C2 witness: two epochs, the second validation loss above the first, and the
\* checkpoint still the first epoch's
C2_Witness ==
    /\ pc = "epoch_loop"
    /\ Len(val_loss_history) = 2
    /\ FracLess(val_loss_history[1], val_loss_history[2])
    /\ best_loss = val_loss_history[1]
    /\ best_model_wts = end_params[1]
    /\ best_model_wts # params

\* C3: each prediction entry is 1 when the score is at least the threshold argument
\* of the call and 0 when it is below it.
C3_ThresholdArgument ==
    pc = "predicted"
        => \A k \in DOMAIN outputs :
              preds[k] = IF outputs[k] >= threshold THEN Scale ELSE 0

\* C10: best_loss starts at 10000.0 with the call-start parameters as checkpoint;
\* as long as no validation loss is strictly below 10000.0 the checkpoint, best_loss
\* and best_acc stay as they started, and a return then hands back the call-start
\* parameters (also when num_epochs = 0).
C10_SentinelKeepsStart ==
    ~SomeBelowSentinel(val_loss_history)
        => /\ best_model_wts = 0
           /\ best_loss = Sentinel
           /\ best_acc = Frac(0, 1)
           /\ pc = "returned" => result.model = 0

\* C10 witness: two trained epochs, both validation losses at or above 10000.0, and
\* the call-start parameters returned
C10_Witness ==
    /\ pc = "returned"
    /\ num_epochs = 2
    /\ ~SomeBelowSentinel(val_loss_history)
    /\ FracEq(val_loss_history[1], Sentinel)
    /\ end_params[2] > 0
    /\ result.model = 0

\* the finalized phases so far, from the position in the loop
InEpoch == pc \in {"phase_start", "batches", "failed", "scheduler"}

TrainPhasesDone == epoch + (IF InEpoch /\ phase = "val" THEN 1 ELSE 0)

ValPhasesDone == epoch + (IF pc = "scheduler" THEN 1 ELSE 0)

ValLists == <<val_acc_history, val_loss_history, val_outputs_history, val_targets_history>>

TrainLists == <<train_acc_history, train_loss_history, train_outputs_history,
                train_targets_history>>

\* the labels one pass over a loader yields, concatenated
LoaderLabels(loader) ==
    Flatten([b \in DOMAIN loader.batches |-> BatchLabels(loader.batches[b], out_width)])

C4_Lengths ==
    /\ \A k \in 1..4 : Len(ValLists[k]) = ValPhasesDone
    /\ \A k \in 1..4 : Len(TrainLists[k]) = TrainPhasesDone
    /\ \A e \in DOMAIN val_targets_history :
          val_targets_history[e] = LoaderLabels(dataloaders["val"])
    /\ \A e \in DOMAIN train_targets_history :
          train_targets_history[e] = LoaderLabels(dataloaders["train"])
    /\ \A e \in DOMAIN val_outputs_history :
          /\ Len(val_outputs_history[e]) = Len(val_targets_history[e])
          /\ val_acc_history[e].num
                = CountEqual(val_outputs_history[e], val_targets_history[e])
    /\ \A e \in DOMAIN train_outputs_history :
          /\ Len(train_outputs_history[e]) = Len(train_targets_history[e])
          /\ train_acc_history[e].num
                = CountEqual(train_outputs_history[e], train_targets_history[e])
    /\ pc = "returned"
          => /\ \A k \in 1..4 : Len(ValLists[k]) = num_epochs
             /\ \A k \in 1..4 : Len(TrainLists[k]) = num_epochs
             /\ result.val = [acc |-> val_acc_history, loss |-> val_loss_history,
                              targets |-> val_targets_history,
                              outputs |-> val_outputs_history]
             /\ result.train = [acc |-> train_acc_history, loss |-> train_loss_history,
                                targets |-> train_targets_history,
                                outputs |-> train_outputs_history]

\* the four values a phase finalization computes, in the order of ValLists
Computed ==
    << Frac(running_corrects.val, dataloaders[phase].len * num_classes),
       Frac(running_loss, dataloaders[phase].len),
       Flatten(outputs_batch),
       Flatten(targets_batch) >>

C4_Step ==
    /\ ValFinalizeStep
          => /\ \A k \in 1..4 : ValLists' [k] = Append(ValLists[k], Computed[k])
             /\ TrainLists' = TrainLists
    /\ TrainFinalizeStep
          => /\ \A k \in 1..4 : TrainLists' [k] = Append(TrainLists[k], Computed[k])
             /\ ValLists' = ValLists
    /\ ~(ValFinalizeStep \/ TrainFinalizeStep) => UNCHANGED histories

\* C4: each of the eight history lists holds one entry per finalized phase (so
\* num_epochs entries at the return, and the returned lists are these lists),
\* entry e being the value computed for epoch e; a phase finalization appends
\* exactly one entry, the value it computed, to each of its phase's four lists,
\* and no step changes an earlier entry or the other phase's lists.
C4_Histories == []C4_Lengths /\ [][C4_Step]_vars

\* C4 witness: a return after two epochs whose two validation losses differ
C4_Witness ==
    /\ pc = "returned"
    /\ num_epochs = 2
    /\ Len(result.val.loss) = 2
    /\ Len(result.train.outputs) = 2
    /\ result.val.loss[1] # result.val.loss[2]

\* C5: prof is none while profiling is disabled; with profiling enabled it is the
\* profile of the most recent forward pass of the run (of either phase), each
\* profiled pass replacing the one before; the returned profile is prof.
C5_LastProfile ==
    /\ ~profiler => prof = None
    /\ profiler => prof = last_fwd
    /\ pc = "returned" => result.prof = prof

\* C5 witness: profiling on, two epochs, the profile of the last validation batch
C5_Witness ==
    /\ pc = "returned"
    /\ profiler
    /\ num_epochs = 2
    /\ result.prof = <<1, "val", 2>>

EmptyLoader(loader) == loader.len = 0 \/ loader.batches = <<>>

C6_Inv ==
    /\ pc = "failed" => result = NoResult
    /\ (pc = "returned" /\ num_epochs >= 1)
          => ~EmptyLoader(dataloaders["train"]) /\ ~EmptyLoader(dataloaders["val"])

C6_Step ==
    /\ (PhaseDone /\ EmptyLoader(dataloaders[phase]))
          => /\ pc' = "failed"
             /\ UNCHANGED <<params, best, histories, result>>
    /\ pc # "failed"

\* C6: when the phase's loader has an empty dataset or yields no batch, the phase
\* finalization fails: the run ends there, nothing is returned, no history entry is
\* added and the best checkpoint is not loaded into the model.
C6_EmptyLoaderFails == []C6_Inv /\ [][C6_Step]_vars

\* C6 witness: the validation loader yields no batch of its two samples; the run
\* has failed with the trained parameters still in the model
C6_Witness ==
    /\ pc = "failed"
    /\ phase = "val"
    /\ dataloaders["val"].len = 2
    /\ params # best_model_wts
    /\ result = NoResult

InUnit(f) == f.den > 0 /\ 0 <= f.num /\ f.num <= f.den

SamplesYielded(loader) == SumSeq([b \in DOMAIN loader.batches |-> Len(loader.batches[b])])

\* every entry of a batch's predictions and labels is 0 or 1
ZeroOne(a) == \A k \in DOMAIN a : a[k] \in {0, Scale}

\* C7: every epoch_acc, of either phase, lies in [0, 1] (predictions and labels
\* being 0 or 1).
C7_AccInUnit ==
    /\ \A e \in DOMAIN val_acc_history : InUnit(val_acc_history[e])
    /\ \A e \in DOMAIN train_acc_history : InUnit(train_acc_history[e])

Covered(loader) == SamplesYielded(loader) <= loader.len /\ out_width = num_classes

\* C7 amended: every epoch_acc of a phase lies in [0, 1] provided that the phase's
\* loader yields at most len(dataset) samples in an epoch and that the model's
\* output has num_classes columns.
C7_AccInUnitWhenCovered ==
    /\ \A e \in DOMAIN val_outputs_history :
          ZeroOne(val_outputs_history[e]) /\ ZeroOne(val_targets_history[e])
    /\ Covered(dataloaders["val"])
          => \A e \in DOMAIN val_acc_history : InUnit(val_acc_history[e])
    /\ Covered(dataloaders["train"])
          => \A e \in DOMAIN train_acc_history : InUnit(train_acc_history[e])

\* C7 witness: two samples of two classes, three of the four entries right
C7_Witness ==
    /\ Covered(dataloaders["val"])
    /\ num_classes = 2
    /\ Len(val_acc_history) = 2
    /\ val_acc_history[1] = Frac(3, 4)
    /\ val_acc_history[2] = Frac(1, 4)

TrainBatches == Len(dataloaders["train"].batches)

\* the train batches processed so far, from the position in the loop
TrainBatchesDone ==
    epoch * TrainBatches
        + (IF pc \in {"batches", "failed"} /\ phase = "train" THEN i
           ELSE IF InEpoch /\ phase = "val" THEN TrainBatches ELSE 0)

C8_Inv ==
    /\ last_fwd # None
          => calls = IF last_fwd[2] = "train"
                     THEN <<"forward", "backward", "step">>
                     ELSE <<"forward">>
    /\ pc # "returned" => params = TrainBatchesDone
    /\ (InEpoch /\ phase = "val") => params = train_end_params

C8_Step ==
    /\ (phase = "val" /\ phase' = "val" /\ pc' # "returned") => params' = params
    /\ (ValFinalizeStep /\ best_model_wts' # best_model_wts)
          => best_model_wts' = train_end_params

\* C8: a train batch calls backward and then the optimizer step, once each, and a
\* val batch calls neither: the parameters change once per train batch and not at
\* all during a validation phase, so a checkpoint copied when a validation phase
\* is finalized holds the parameters of the end of that epoch's train phase.
C8_TrainOnlyUpdates == []C8_Inv /\ [][C8_Step]_vars

\* C8 witness: the second epoch's validation phase of two batches is finalized and
\* its checkpoint is the parameters the train phase ended with
C8_Witness ==
    /\ pc = "scheduler"
    /\ epoch = 1
    /\ i = 2
    /\ calls = <<"forward">>
    /\ best_model_wts = train_end_params
    /\ best_model_wts = 2

\* C9: validation batches run only after the epoch's train phase is finalized; the
\* scheduler has been stepped once per finalized validation phase, except between
\* that finalization and the step that follows it, so once per epoch before the
\* next epoch's first batch; at the return it has been stepped num_epochs times.
C9_SchedulerOncePerEpoch ==
    /\ sched_steps = Len(val_loss_history) - (IF pc = "scheduler" THEN 1 ELSE 0)
    /\ (pc = "batches" /\ phase = "val")
          => Len(train_loss_history) = Len(val_loss_history) + 1
    /\ (pc = "batches" /\ phase = "train")
          => Len(train_loss_history) = Len(val_loss_history)
    /\ (pc = "batches" /\ i > 0) => last_fwd = <<sched_steps, phase, i>>
    /\ pc = "returned" => sched_steps = num_epochs

\* C9 witness: a return after two epochs and two scheduler steps
C9_Witness ==
    /\ pc = "returned"
    /\ num_epochs = 2
    /\ sched_steps = 2
    /\ last_fwd = <<1, "val", 1>>

====
